---- MODULE Spec2Model ----
(***************************************************************************)
(* Model of the trivy-pr-decorator action: the comment formatter, the      *)
(* report parser, the PR commenter (locate-then-create-or-update) and the  *)
(* PR-context resolver.                                                    *)
(*                                                                         *)
(* Text is modelled as a sequence of atoms (words, punctuation, emoji      *)
(* written as :name:), so that concatenation is \o and String.includes is  *)
(* a contiguous-subsequence test.  JS null is NULL, JS undefined is        *)
(* UNDEFINED, and a number is truthy iff it is positive.                   *)
(***************************************************************************)
EXTENDS Integers, Sequences, FiniteSets, TLC

VARIABLES
  comments,      \* the forge: PR number -> the PR's comments, in listing order
  nextId,        \* the forge: id of the next comment it creates
  accountType,   \* the forge: account type of the token the action runs with
  run,           \* run -> state of its postOrUpdateComment call
  initComments,  \* history: the comments before the first run
  fmt,           \* the formatter exercised on its own
  res,           \* the resolvePRContext call of the resolver exercised on its own
  unit,          \* one helper of the resolver called on its own
  act,           \* the run of the entry point (index.js run)
  overlap        \* history: a postOrUpdateComment call was entered during another

vars == <<comments, nextId, accountType, run, initComments, fmt, res, unit, act, overlap>>

forgeVars == <<comments, nextId, accountType, initComments>>

-----------------------------------------------------------------------------
(* Bounds of the model.                                                    *)

\* longest vulnerability list of a report
MaxVulns == 3
\* largest max-table-rows input
MaxRowLimit == 3
\* most comments a PR has before the first run
MaxInitComments == 2
\* most pull requests the commit lookup returns
MaxLookupPRs == 2

-----------------------------------------------------------------------------
(* JS values and strings.                                                  *)

NULL == 0
UNDEFINED == 0 - 1

\* JS truthiness of a number-or-null value
Truthy(v) == v > 0

\* a || b on number-or-null values
OrElse(a, b) == IF Truthy(a) THEN a ELSE b

\* the empty string ''
EMPTY == << >>

\* a || b on strings: the empty string (and a missing field) is falsy
StrOr(a, b) == IF a = EMPTY THEN b ELSE a

\* String.prototype.includes
Includes(s, sub) ==
  \E i \in 0..(Len(s) - Len(sub)) : SubSeq(s, i + 1, i + Len(sub)) = sub

Min(a, b) == IF a <= b THEN a ELSE b

\* Array.prototype.join of a list of strings
RECURSIVE Join(_, _)
Join(parts, sep) ==
  IF parts = << >> THEN EMPTY
  ELSE IF Len(parts) = 1 THEN parts[1]
  ELSE parts[1] \o sep \o Join(Tail(parts), sep)

\* concatenation of a list of strings
RECURSIVE Concat(_)
Concat(parts) == IF parts = << >> THEN EMPTY ELSE parts[1] \o Concat(Tail(parts))

-----------------------------------------------------------------------------
(* TrivyParser.parse on the parsed JSON document.                          *)

Severities == <<"CRITICAL", "HIGH", "MEDIUM", "LOW">>

\* String.prototype.toUpperCase on the severity spellings of the model
ToUpperCase(s) ==
  CASE s = "critical" -> "CRITICAL"
    [] s = "high" -> "HIGH"
    [] s = "medium" -> "MEDIUM"
    [] s = "low" -> "LOW"
    [] s = "unknown" -> "UNKNOWN"
    [] OTHER -> s

IsRecognized(sev) == \E i \in 1..Len(Severities) : Severities[i] = sev

\* the internal vulnerability record built from one Trivy entry
MapVulnerability(result, vuln) ==
  [ target |-> StrOr(result.Target, <<"unknown">>),
    type |-> StrOr(result.Type, <<"unknown">>),
    id |-> StrOr(vuln.VulnerabilityID, EMPTY),
    package |-> StrOr(vuln.PkgName, EMPTY),
    installedVersion |-> StrOr(vuln.InstalledVersion, EMPTY),
    fixedVersion |-> StrOr(vuln.FixedVersion, <<"N/A">>),
    severity |-> ToUpperCase(vuln.Severity),
    title |-> StrOr(vuln.Title, EMPTY) ]

\* the vulnerabilities of one result, unrecognized severities skipped
RECURSIVE ParseVulns(_, _)
ParseVulns(result, vulns) ==
  IF vulns = << >> THEN << >>
  ELSE IF IsRecognized(ToUpperCase(Head(vulns).Severity))
       THEN <<MapVulnerability(result, Head(vulns))>> \o ParseVulns(result, Tail(vulns))
       ELSE ParseVulns(result, Tail(vulns))

RECURSIVE ParseResults(_)
ParseResults(results) ==
  IF results = << >> THEN << >>
  ELSE ParseVulns(Head(results), Head(results).Vulnerabilities) \o ParseResults(Tail(results))

CountOf(vulnerabilities, sev) ==
  Len(SelectSeq(vulnerabilities, LAMBDA v : v.severity = sev))

\* parse: the flat vulnerability list with its severity counts
Parse(trivyData) ==
  LET vulnerabilities == ParseResults(trivyData.Results)
  IN [ vulnerabilities |-> vulnerabilities,
       counts |-> [ critical |-> CountOf(vulnerabilities, "CRITICAL"),
                    high |-> CountOf(vulnerabilities, "HIGH"),
                    medium |-> CountOf(vulnerabilities, "MEDIUM"),
                    low |-> CountOf(vulnerabilities, "LOW"),
                    total |-> Len(vulnerabilities) ] ]

-----------------------------------------------------------------------------
(* CommentFormatter.                                                       *)

\* PRCommenter.scanHeader
scanHeader == <<":lock:", "Trivy", "Security", "Scan", "Report">>

\* the header line that format() prepends
header == <<"##", ":lock:", "Trivy", "Security", "Scan", "\n\n">>

getSummaryEmoji(counts) ==
  IF counts.critical > 0 THEN ":red_circle:"
  ELSE IF counts.high > 0 THEN ":orange_circle:"
  ELSE IF counts.medium > 0 \/ counts.low > 0 THEN ":yellow_circle:"
  ELSE ":check:"

getSeverityEmoji(severity) ==
  CASE severity = "CRITICAL" -> <<":red_circle:">>
    [] severity = "HIGH" -> <<":orange_circle:">>
    [] severity = "MEDIUM" -> <<":yellow_circle:">>
    [] severity = "LOW" -> <<":white_circle:">>
    [] OTHER -> EMPTY

formatSummary(counts) ==
  IF counts.total = 0
  THEN <<":check:", "**No vulnerabilities found**", "\n\n">>
  ELSE LET severityParts ==
             (IF counts.critical > 0
                THEN << <<ToString(counts.critical), ":red_circle:", "CRITICAL">> >> ELSE << >>)
             \o (IF counts.high > 0
                   THEN << <<ToString(counts.high), ":orange_circle:", "HIGH">> >> ELSE << >>)
             \o (IF counts.medium > 0
                   THEN << <<ToString(counts.medium), ":yellow_circle:", "MEDIUM">> >> ELSE << >>)
             \o (IF counts.low > 0
                   THEN << <<ToString(counts.low), ":white_circle:", "LOW">> >> ELSE << >>)
           severityList == Join(severityParts, <<",">>)
       IN <<getSummaryEmoji(counts), "**">> \o severityList
            \o <<"**", "(", ToString(counts.total), "total)", "\n\n">>

\* text.replace(/\|/g, '\\|')
RECURSIVE escapeTableCell(_)
escapeTableCell(text) ==
  IF text = EMPTY THEN EMPTY
  ELSE <<IF Head(text) = "|" THEN "\\|" ELSE Head(text)>> \o escapeTableCell(Tail(text))

\* [...vulnerabilities].sort(by severityOrder): the sort is stable, so the
\* result is the CRITICAL entries, then HIGH, MEDIUM, LOW, each in input order
SortBySeverity(vulnerabilities) ==
  Concat([i \in 1..Len(Severities) |->
            SelectSeq(vulnerabilities, LAMBDA v : v.severity = Severities[i])])

formatRow(vuln) ==
  <<"|">> \o getSeverityEmoji(vuln.severity) \o <<vuln.severity, "|">>
    \o escapeTableCell(vuln.package) \o <<"|">>
    \o escapeTableCell(vuln.type) \o <<"|">>
    \o escapeTableCell(vuln.id) \o <<"|">>
    \o escapeTableCell(vuln.installedVersion) \o <<"|">>
    \o escapeTableCell(vuln.fixedVersion) \o <<"|", "\n">>

formatTable(vulnerabilities, maxRows) ==
  IF Len(vulnerabilities) = 0 THEN EMPTY
  ELSE LET sorted == SortBySeverity(vulnerabilities)
           limited == SubSeq(sorted, 1, Min(maxRows, Len(sorted)))
       IN <<"### Vulnerability Details", "\n\n",
            "| Severity | Package | Type | Vulnerability | Installed | Fixed |", "\n",
            "|----------|---------|------|---------------|-----------|-------|", "\n">>
            \o Concat([i \in 1..Len(limited) |-> formatRow(limited[i])])
            \o (IF Len(vulnerabilities) > maxRows
                  THEN <<"\n", "*...", "and", ToString(Len(vulnerabilities) - maxRows),
                         "more*", "\n">>
                  ELSE EMPTY)

format(results, maxRows) ==
  header \o formatSummary(results.counts) \o formatTable(results.vulnerabilities, maxRows)

-----------------------------------------------------------------------------
(* Inputs of the formatter: Trivy documents with one result.               *)

TrivyVuln(sev, pkg) ==
  [ VulnerabilityID |-> <<"CVE-2023-1234">>, PkgName |-> pkg,
    InstalledVersion |-> <<"1.1.1">>, FixedVersion |-> EMPTY,
    Severity |-> sev, Title |-> <<"title">> ]

\* the entries a report is made of: every severity, an unrecognized one, a
\* package name with a pipe, and a package name that spells the scan header
VulnSamples ==
  { TrivyVuln("CRITICAL", <<"openssl">>),
    TrivyVuln("high", <<"lodash">>),
    TrivyVuln("MEDIUM", <<"a", "|", "b">>),
    TrivyVuln("LOW", <<"axios">>),
    TrivyVuln("unknown", <<"zlib">>),
    TrivyVuln("LOW", scanHeader) }

RECURSIVE SeqsUpTo(_, _)
SeqsUpTo(S, n) ==
  IF n = 0 THEN { << >> }
  ELSE LET shorter == SeqsUpTo(S, n - 1)
       IN shorter \cup { Append(s, x) : s \in shorter, x \in S }

TrivyDocs(n) ==
  { [ Results |-> << [ Target |-> <<"Dockerfile">>, Type |-> <<"alpine">>,
                       Vulnerabilities |-> vs ] >> ] : vs \in SeqsUpTo(VulnSamples, n) }

-----------------------------------------------------------------------------------------------------------------------------------------------------------------------------------------------------------------------------
(* ContextResolver.                                                        *)

\* JS strings that may be null or undefined: the two are marked values
NULLSTR == "<null>"
UNDEFSTR == "<undefined>"

\* JS truthiness of a string-or-null value
StrTruthy(v) == v \notin {NULLSTR, UNDEFSTR, ""}

\* the pull_request field of a payload: missing, or an object whose number
\* may be missing
NoPullRequest == [ present |-> FALSE, number |-> UNDEFINED ]
PullRequest(n) == [ present |-> TRUE, number |-> n ]

\* the workflow_run field of a payload: missing, or an object whose
\* pull_requests may be missing; an element of pull_requests is null or an
\* object whose number may be missing
NoWorkflowRun == [ present |-> FALSE, hasPullRequests |-> FALSE, pull_requests |-> << >> ]
WorkflowRun(has, prs) == [ present |-> TRUE, hasPullRequests |-> has, pull_requests |-> prs ]
NullElement == [ isNull |-> TRUE, number |-> UNDEFINED ]
Element(n) == [ isNull |-> FALSE, number |-> n ]

\* a parsed event payload; isNull is the JSON document null
Event(pr, wr) == [ isNull |-> FALSE, pull_request |-> pr, workflow_run |-> wr ]
NullEvent == [ isNull |-> TRUE, pull_request |-> NoPullRequest, workflow_run |-> NoWorkflowRun ]

\* a value returned, or a TypeError thrown
Value(v) == [ threw |-> FALSE, value |-> v ]
TypeError == [ threw |-> TRUE, value |-> NULL ]

\* event.pull_request?.number
PullRequestNumber(event) ==
  IF event.pull_request.present THEN event.pull_request.number ELSE UNDEFINED

\* pullRequests[0].number
FirstNumber(pullRequests) ==
  IF pullRequests[1].isNull THEN TypeError ELSE Value(pullRequests[1].number)

\* mutant: the generic extraction has no branch that handles workflow_call
extractPRNumber_WorkflowCallUnhandled(event, eventName) ==
  IF event.isNull THEN Value(NULL)
  ELSE IF eventName = "pull_request" \/ eventName = "pull_request_target"
  THEN Value(OrElse(PullRequestNumber(event), NULL))
  ELSE IF eventName = "workflow_run"
  THEN IF /\ event.workflow_run.present
          /\ event.workflow_run.hasPullRequests
          /\ Len(event.workflow_run.pull_requests) > 0
       THEN FirstNumber(event.workflow_run.pull_requests)
       ELSE Value(NULL)
  ELSE IF eventName = "workflow_call"
  THEN Value(NULL)
  ELSE IF eventName = "push"
  THEN IF Truthy(PullRequestNumber(event)) THEN Value(event.pull_request.number)
       ELSE Value(NULL)
  ELSE IF event.pull_request.present
  THEN Value(OrElse(event.pull_request.number, NULL))
  ELSE IF event.workflow_run.present /\ event.workflow_run.hasPullRequests
  THEN IF Len(event.workflow_run.pull_requests) > 0
       THEN FirstNumber(event.workflow_run.pull_requests)
       ELSE Value(NULL)
  ELSE Value(NULL)

extractPRNumber(event, eventName) ==
  IF event.isNull THEN Value(NULL)
  ELSE IF eventName = "pull_request" \/ eventName = "pull_request_target"
  THEN Value(OrElse(PullRequestNumber(event), NULL))
  ELSE IF eventName = "workflow_run"
  THEN IF /\ event.workflow_run.present
          /\ event.workflow_run.hasPullRequests
          /\ Len(event.workflow_run.pull_requests) > 0
       THEN FirstNumber(event.workflow_run.pull_requests)
       ELSE Value(NULL)
  ELSE IF eventName = "workflow_call"
  THEN IF Truthy(PullRequestNumber(event)) THEN Value(event.pull_request.number)
       ELSE Value(NULL)
  ELSE IF eventName = "push"
  THEN IF Truthy(PullRequestNumber(event)) THEN Value(event.pull_request.number)
       ELSE Value(NULL)
  ELSE IF event.pull_request.present
  THEN Value(OrElse(event.pull_request.number, NULL))
  ELSE IF event.workflow_run.present /\ event.workflow_run.hasPullRequests
  THEN IF Len(event.workflow_run.pull_requests) > 0
       THEN FirstNumber(event.workflow_run.pull_requests)
       ELSE Value(NULL)
  ELSE Value(NULL)

\* the live context: payload, event-type tag, sha
Context(payload, headCommitId, after, eventName, sha) ==
  [ payload |-> payload, head_commit_id |-> headCommitId, after |-> after,
    eventName |-> eventName, sha |-> sha ]

\* mutant: the SHA of the context is preferred to the SHAs of the payload
extractCommitSHA_ContextFirst(context, shaInput) ==
  IF StrTruthy(shaInput) THEN shaInput
  ELSE IF StrTruthy(context.sha) THEN context.sha
  ELSE IF StrTruthy(context.head_commit_id) THEN context.head_commit_id
  ELSE IF StrTruthy(context.after) THEN context.after
  ELSE NULLSTR

\* mutant: payload.after is consulted before payload.head_commit.id
extractCommitSHA_AfterFirst(context, shaInput) ==
  IF StrTruthy(shaInput) THEN shaInput
  ELSE IF StrTruthy(context.after) THEN context.after
  ELSE IF StrTruthy(context.head_commit_id) THEN context.head_commit_id
  ELSE IF StrTruthy(context.sha) THEN context.sha
  ELSE NULLSTR

\* head_commit_id is payload.head_commit?.id
extractCommitSHA(context, shaInput) ==
  IF StrTruthy(shaInput) THEN shaInput
  ELSE IF StrTruthy(context.head_commit_id) THEN context.head_commit_id
  ELSE IF StrTruthy(context.after) THEN context.after
  ELSE IF StrTruthy(context.sha) THEN context.sha
  ELSE NULLSTR

\* prs.find(pr => pr.state === 'open'); the result is << >> or <<pr>>
RECURSIVE FindOpen(_)
FindOpen(prs) ==
  IF prs = << >> THEN << >>
  ELSE IF Head(prs).state = "open" THEN <<Head(prs)>>
  ELSE FindOpen(Tail(prs))

\* mutant: the first pull request is taken whatever its state
SelectPR_FirstInList(prs) ==
  IF Len(prs) > 0 THEN prs[1].number ELSE NULL

\* findPRByCommit on the data of the lookup response
SelectPR(prs) ==
  IF Len(prs) > 0
  THEN LET openPR == FindOpen(prs)
           pr == IF openPR # << >> THEN openPR[1] ELSE prs[1]
       IN pr.number
  ELSE NULL

\* the event file argument: no path, or a path whose file is missing, is not
\* JSON, or parses to an event
NoFile == [ kind |-> "none", event |-> NullEvent ]
MissingFile == [ kind |-> "missing", event |-> NullEvent ]
InvalidFile == [ kind |-> "invalid", event |-> NullEvent ]
JsonFile(event) == [ kind |-> "json", event |-> event ]

\* readEventFile: the parsed event, or an Error thrown
readEventFile(file) ==
  IF file.kind = "json" THEN [ threw |-> FALSE, event |-> file.event ]
  ELSE [ threw |-> TRUE, event |-> NullEvent ]

\* the value resolvePRContext returns
Resolved(prNumber, isWorkflowRun, eventName) ==
  [ prNumber |-> prNumber, isWorkflowRun |-> isWorkflowRun, eventName |-> eventName ]

NoResult == Resolved(NULL, FALSE, "")

\* eventName || this.context.eventName || ''
ResolvedEventName(eventName, context) ==
  IF StrTruthy(eventName) THEN eventName
  ELSE IF StrTruthy(context.eventName) THEN context.eventName
  ELSE ""

\* mutant: the flag follows the event-type tag of the live context
isWorkflowRun_ByEventTag(context) == context.eventName = "workflow_run"

\* !!this.context.payload.workflow_run
isWorkflowRun(context) == context.payload.workflow_run.present

\* mutant: a path whose file cannot be read counts as no path
UsesEventFile_OnlyReadable(file) == file.kind = "json"

\* if (eventFilePath)
UsesEventFile(file) == file.kind # "none"

\* mutant: the SHA-based resolution is attempted for every event type
AttemptsShaResolution_AnyType(prNumber, resolvedEventName) == ~Truthy(prNumber)

\* !prNumber && (resolvedEventName === 'push' || resolvedEventName === 'workflow_call')
AttemptsShaResolution(prNumber, resolvedEventName) ==
  ~Truthy(prNumber) /\ (resolvedEventName = "push" \/ resolvedEventName = "workflow_call")

\* resolvePRContext up to its first suspension: the outcome is "returned"
\* (with the value), "raised" (an exception leaves the function) or "lookup"
\* (findPRByCommit has issued the commit lookup for `sha`)
ResolveOutcome(context, hasOctokit, file, eventName, shaInput) ==
  LET resolvedEventName == ResolvedEventName(eventName, context)
      Return(prNumber) ==
        [ pc |-> "returned", sha |-> NULLSTR,
          result |-> Resolved(prNumber, isWorkflowRun(context), resolvedEventName) ]
      Raise == [ pc |-> "raised", sha |-> NULLSTR, result |-> NoResult ]
  IN IF UsesEventFile(file)
     THEN LET read == readEventFile(file)
          IN IF read.threw THEN Return(NULL)
             ELSE LET extracted == extractPRNumber(read.event, resolvedEventName)
                  IN IF extracted.threw THEN Return(NULL) ELSE Return(extracted.value)
     ELSE LET extracted == extractPRNumber(context.payload, resolvedEventName)
          IN IF extracted.threw THEN Raise
             ELSE LET probed ==
                        IF /\ ~Truthy(extracted.value)
                           /\ resolvedEventName = "workflow_call"
                           /\ Truthy(PullRequestNumber(context.payload))
                        THEN context.payload.pull_request.number
                        ELSE extracted.value
                  IN IF AttemptsShaResolution(probed, resolvedEventName)
                     THEN LET sha == extractCommitSHA(context, shaInput)
                          IN IF StrTruthy(sha)
                             THEN IF hasOctokit
                                  THEN [ pc |-> "lookup", sha |-> sha,
                                         result |-> Resolved(probed, isWorkflowRun(context),
                                                             resolvedEventName) ]
                                  ELSE Return(NULL)
                             ELSE Return(probed)
                     ELSE Return(probed)

\* payload shapes of the resolver runs
PullRequestShapes(n) == { NoPullRequest, PullRequest(UNDEFINED), PullRequest(n) }

WorkflowRunShapes ==
  { NoWorkflowRun, WorkflowRun(FALSE, << >>), WorkflowRun(TRUE, << >>),
    WorkflowRun(TRUE, <<NullElement>>), WorkflowRun(TRUE, <<Element(UNDEFINED)>>),
    WorkflowRun(TRUE, <<Element(3)>>), WorkflowRun(TRUE, <<Element(3), Element(4)>>) }

\* the workflow_run shapes of the resolvePRContext runs: missing, without
\* pull_requests, a null first element, a first element with a number
ResolverWorkflowRuns ==
  { NoWorkflowRun, WorkflowRun(FALSE, << >>), WorkflowRun(TRUE, <<NullElement>>),
    WorkflowRun(TRUE, <<Element(3)>>) }

\* the payload in the event file names PR 1, the live payload PR 2
FileEvents == { Event(pr, wr) : pr \in PullRequestShapes(1), wr \in ResolverWorkflowRuns }
LivePayloads == { Event(pr, wr) : pr \in PullRequestShapes(2), wr \in ResolverWorkflowRuns }

EventFiles == { NoFile, MissingFile, InvalidFile, JsonFile(NullEvent) }
                \cup { JsonFile(e) : e \in FileEvents }

EventNameArgs ==
  { UNDEFSTR, "", "pull_request", "workflow_run", "workflow_call", "push", "issue_comment" }

LiveEventNames == { UNDEFSTR, "pull_request_target", "push", "workflow_run" }

LiveContexts ==
  { Context(p, h, a, n, c) :
      p \in LivePayloads, h \in {UNDEFSTR, "sha-head"}, a \in {"", "sha-after"},
      n \in LiveEventNames, c \in {"", "sha-context"} }

\* a listPullRequestsAssociatedWithCommit call: its commit_sha, and its
\* response once it has settled ("pending", "ok" with data, "failed")
Lookup(sha, response, data) == [ commit_sha |-> sha, response |-> response, data |-> data ]

\* pull requests the commit lookup returns
LookupPRs == { [ number |-> n, state |-> st ] : n \in {5, 6}, st \in {"open", "closed"} }

-----
(* The forge (issue comments API) and PRCommenter.                         *)

PRs == {1, 2}
Runs == {1, 2}

\* error.message of a rejected request
TransportMessages == {"Not Found", "API rate limit exceeded"}

NewComment(id, type, body) == [ id |-> id, user_type |-> type, body |-> body ]
\* mutant: the locator searches for the header line of the formatter
IsBotComment_FormatterHeader(comment) ==
  comment.user_type = "Bot" /\ Includes(comment.body, <<"##", ":lock:", "Trivy", "Security", "Scan", "\n\n">>)

\* mutant: the author type is not checked
IsBotComment_AnyAuthor(comment) == Includes(comment.body, <<":lock:", "Trivy", "Security", "Scan", "Report">>)

\* the ownership predicate of findExistingComment
IsBotComment(comment) ==
  comment.user_type = "Bot" /\ Includes(comment.body, scanHeader)

\* comments.find(predicate) || null; the result is << >> (null) or <<comment>>
RECURSIVE FindBotComment(_)
FindBotComment(list) ==
  IF list = << >> THEN << >>
  ELSE IF IsBotComment(Head(list)) THEN <<Head(list)>>
  ELSE FindBotComment(Tail(list))
\* mutant: the locator never finds a comment
findExistingComment_Never(data) == << >>

\* findExistingComment applied to the data of the list response
findExistingComment(data) == FindBotComment(data)

\* octokit.rest.issues.listComments({issue_number})
ForgeListComments(cs, issue_number) == cs[issue_number]

\* octokit.rest.issues.createComment({issue_number, body}) with comment id `id`
ForgeCreateComment(cs, issue_number, id, body) ==
  [cs EXCEPT ![issue_number] = Append(@, NewComment(id, accountType, body))]

\* octokit.rest.issues.updateComment({comment_id, body})
ForgeUpdateComment(cs, comment_id, body) ==
  [p \in PRs |->
     [i \in 1..Len(cs[p]) |->
        IF cs[p][i].id = comment_id THEN [cs[p][i] EXCEPT !.body = body] ELSE cs[p][i]]]

\* one recorded remote call of a run
Call(op, issue_number, comment_id, body) ==
  [ op |-> op, issue_number |-> issue_number, comment_id |-> comment_id,
    body |-> body, status |-> "pending", message |-> "" ]

Settle(calls, status, message) ==
  [calls EXCEPT ![Len(calls)].status = status, ![Len(calls)].message = message]

IdleRun ==
  [ pc |-> "idle", origin |-> "", body |-> EMPTY, prNumber |-> NULL,
    livePR |-> UNDEFINED, pr |-> NULL, existingComment |-> << >>,
    calls |-> << >>, result |-> "none", error |-> EMPTY ]

Active(r) == run[r].pc \in {"called", "listing", "creating", "updating"}
Finished(r) == run[r].pc \in {"done", "skipped", "failed"}

\* mutant: every way out of the call reports that a comment was posted
Returned_AlwaysTrue(r, pc, calls, result, error) ==
  [ pc |-> pc, origin |-> run[r].origin, body |-> EMPTY, prNumber |-> NULL,
    livePR |-> UNDEFINED, pr |-> NULL, existingComment |-> << >>,
    calls |-> calls, result |-> "true", error |-> error ]

\* the call has returned or thrown: its locals are gone, the recorded remote
\* calls, the return value and the error stay
Returned(r, pc, calls, result, error) ==
  [IdleRun EXCEPT !.pc = pc, !.origin = run[r].origin, !.calls = calls,
                  !.result = result, !.error = error]

\* runs do not overlap: run r starts when the runs before it have finished
MayStart(r) ==
  /\ run[r].pc = "idle"
  /\ \A q \in Runs : q < r => Finished(q)

\* postOrUpdateComment(body, prNumber) is entered
Enter(r, origin, body, prNumber, livePR) ==
  /\ run' = [run EXCEPT ![r] = [IdleRun EXCEPT !.pc = "called", !.origin = origin,
                                              !.body = body, !.prNumber = prNumber,
                                              !.livePR = livePR]]
  /\ UNCHANGED <<forgeVars, fmt, res, unit, act, overlap>>

\* the body a caller other than the entry point passes: it carries the header
DirectBodies == { <<"##">> \o scanHeader \o <<"\n\n", "results">> }

\* a test or another caller invokes postOrUpdateComment
CallDirect(r) ==
  /\ MayStart(r)
  /\ \E body \in DirectBodies, prNumber \in {NULL} \cup PRs, livePR \in {UNDEFINED} \cup PRs :
       Enter(r, "direct", body, prNumber, livePR)

\* reports the entry point formats in the commenter runs
ActionDocs ==
  { [ Results |-> << [ Target |-> <<"Dockerfile">>, Type |-> <<"alpine">>,
                       Vulnerabilities |-> vs ] >> ] :
      vs \in { << >>, <<TrivyVuln("MEDIUM", <<"openssl">>)>> } }

\* index.js run: parse the results, format the body, call postOrUpdateComment
\* with the resolver's prNumber
CallFromAction(r) ==
  /\ MayStart(r)
  /\ \E d \in ActionDocs, maxRows \in 1..MaxRowLimit,
        prNumber \in {NULL} \cup PRs, livePR \in {UNDEFINED} \cup PRs :
       Enter(r, "action", format(Parse(d), maxRows), prNumber, livePR)
\* mutant: the live PR number wins over the explicit one
EffectivePR_LiveFirst(prNumber, livePR) == OrElse(livePR, prNumber)

\* mutant: a missing PR number falls back to the first PR
EffectivePR_Default(prNumber, livePR) == OrElse(OrElse(prNumber, livePR), 1)

\* const pr = prNumber || this.context.payload.pull_request?.number
EffectivePR(prNumber, livePR) == OrElse(prNumber, livePR)

\* lines 31-39: resolve the PR number, skip or issue the list call
Resolve(r) ==
  /\ run[r].pc = "called"
  /\ LET pr == EffectivePR(run[r].prNumber, run[r].livePR)
     IN IF ~Truthy(pr)
        THEN run' = [run EXCEPT ![r] = Returned(r, "skipped", << >>, "false", EMPTY)]
        ELSE run' = [run EXCEPT ![r].pc = "listing", ![r].pr = pr,
                                ![r].calls = <<Call("list", pr, NULL, EMPTY)>>]
  /\ UNCHANGED <<forgeVars, fmt, res, unit, act, overlap>>

\* mutant: the list response is not searched, the comment is always created
ListReturn_AlwaysCreate(r) ==
  /\ run[r].pc = "listing"
  /\ run' = [run EXCEPT ![r].pc = "creating",
                        ![r].calls = Append(Settle(run[r].calls, "ok", ""),
                                            Call("create", run[r].pr, NULL, run[r].body))]
  /\ UNCHANGED <<forgeVars, fmt, res, unit, act, overlap>>

\* the list call resolves: locate the comment, issue the update or the create
ListReturn(r) ==
  /\ run[r].pc = "listing"
  /\ LET data == ForgeListComments(comments, run[r].pr)
         existingComment == findExistingComment(data)
         calls == Settle(run[r].calls, "ok", "")
     IN IF existingComment # << >>
        THEN run' = [run EXCEPT ![r].pc = "updating",
                                ![r].existingComment = existingComment,
                                ![r].calls = Append(calls,
                                   Call("update", NULL, existingComment[1].id, run[r].body))]
        ELSE run' = [run EXCEPT ![r].pc = "creating",
                                ![r].existingComment = existingComment,
                                ![r].calls = Append(calls,
                                   Call("create", run[r].pr, NULL, run[r].body))]
  /\ UNCHANGED <<forgeVars, fmt, res, unit, act, overlap>>
\* mutant: a failed list call is taken for an empty list
ListFail_Swallowed(r) ==
  /\ run[r].pc = "listing"
  /\ \E msg \in TransportMessages :
       run' = [run EXCEPT ![r].pc = "creating",
                          ![r].calls = Append(Settle(run[r].calls, "failed", msg),
                                              Call("create", run[r].pr, NULL, run[r].body))]
  /\ UNCHANGED <<forgeVars, fmt, res, unit, act, overlap>>

\* the list call rejects
ListFail(r) ==
  /\ run[r].pc = "listing"
  /\ \E msg \in TransportMessages :
       run' = [run EXCEPT ![r] = Returned(r, "failed", Settle(run[r].calls, "failed", msg),
                                          "none", <<"Failed to list PR comments: ", msg>>)]
  /\ UNCHANGED <<forgeVars, fmt, res, unit, act, overlap>>

\* the create call resolves
CreateReturn(r) ==
  /\ run[r].pc = "creating"
  /\ comments' = ForgeCreateComment(comments, run[r].pr, nextId, run[r].body)
  /\ nextId' = nextId + 1
  /\ run' = [run EXCEPT ![r] =
               Returned(r, "done",
                        [Settle(run[r].calls, "ok", "") EXCEPT ![2].comment_id = nextId],
                        "true", EMPTY)]
  /\ UNCHANGED <<accountType, initComments, fmt, res, unit, act, overlap>>

\* the create call rejects; the forge may or may not have stored the comment
CreateFail(r) ==
  /\ run[r].pc = "creating"
  /\ \E msg \in TransportMessages, applied \in BOOLEAN :
       /\ comments' = IF applied
                      THEN ForgeCreateComment(comments, run[r].pr, nextId, run[r].body)
                      ELSE comments
       /\ nextId' = IF applied THEN nextId + 1 ELSE nextId
       /\ run' = [run EXCEPT ![r] =
                    Returned(r, "failed", Settle(run[r].calls, "failed", msg),
                             "none", <<"Failed to create comment: ", msg>>)]
  /\ UNCHANGED <<accountType, initComments, fmt, res, unit, act, overlap>>

\* mutant: the located comment is deleted and the body is posted anew
UpdateReturn_Recreate(r) ==
  /\ run[r].pc = "updating"
  /\ LET kept == [p \in PRs |->
                    SelectSeq(comments[p],
                              LAMBDA c : c.id # run[r].existingComment[1].id)]
     IN comments' = ForgeCreateComment(kept, run[r].calls[1].issue_number, nextId, run[r].body)
  /\ nextId' = nextId + 1
  /\ run' = [run EXCEPT ![r] = Returned(r, "done", Settle(run[r].calls, "ok", ""),
                                        "true", EMPTY)]
  /\ UNCHANGED <<accountType, initComments, fmt, res, unit, act, overlap>>

\* the update call resolves
UpdateReturn(r) ==
  /\ run[r].pc = "updating"
  /\ comments' = ForgeUpdateComment(comments, run[r].existingComment[1].id, run[r].body)
  /\ run' = [run EXCEPT ![r] = Returned(r, "done", Settle(run[r].calls, "ok", ""),
                                        "true", EMPTY)]
  /\ UNCHANGED <<nextId, accountType, initComments, fmt, res, unit, act, overlap>>

\* the update call rejects; the forge may or may not have stored the body
UpdateFail(r) ==
  /\ run[r].pc = "updating"
  /\ \E msg \in TransportMessages, applied \in BOOLEAN :
       /\ comments' = IF applied
                      THEN ForgeUpdateComment(comments, run[r].existingComment[1].id,
                                              run[r].body)
                      ELSE comments
       /\ run' = [run EXCEPT ![r] =
                    Returned(r, "failed", Settle(run[r].calls, "failed", msg),
                             "none", <<"Failed to update comment: ", msg>>)]
  /\ UNCHANGED <<nextId, accountType, initComments, fmt, res, unit, act, overlap>>

\* comments a PR can have before the first run: by a bot or a user, with the
\* scan header or with a near miss of it
InitBodies ==
  { <<"##">> \o scanHeader \o <<"\n\n", "Old content">>,
    <<":lock:", "Trivy", "Security", "Scan", "report">> }

InitKinds == { [ user_type |-> t, body |-> b ] : t \in {"Bot", "User"}, b \in InitBodies }

\* the second PR starts empty or with one comment of a bot that has the header
OtherKinds == { k \in InitKinds : k.user_type = "Bot" /\ Includes(k.body, scanHeader) }

\* the comment list of PR p built from kinds, ids in creation order
InitList(p, kinds) ==
  [i \in 1..Len(kinds) |->
     NewComment((p - 1) * MaxInitComments + i, kinds[i].user_type, kinds[i].body)]

ResIdle == res = [ pc |-> "idle" ]

FmtIdle == fmt = [ pc |-> "idle" ]

UnitIdle == unit = [ pc |-> "idle" ]

ActIdle == act = [ pc |-> "idle" ]

Init ==
  /\ accountType \in {"Bot", "User"}
  /\ \E k1 \in SeqsUpTo(InitKinds, MaxInitComments), k2 \in SeqsUpTo(OtherKinds, 1) :
       comments = [p \in PRs |-> IF p = 1 THEN InitList(1, k1) ELSE InitList(2, k2)]
  /\ nextId = 2 * MaxInitComments + 1
  /\ initComments = comments
  /\ run = [r \in Runs |-> IdleRun]
  /\ FmtIdle
  /\ ResIdle
  /\ UnitIdle
  /\ ActIdle
  /\ overlap = FALSE

Next ==
  \E r \in Runs :
    \/ CallDirect(r)
    \/ CallFromAction(r)
    \/ Resolve(r)
    \/ ListReturn(r)
    \/ ListFail(r)
    \/ CreateReturn(r)
    \/ CreateFail(r)
    \/ UpdateReturn(r)
    \/ UpdateFail(r)

Spec == Init /\ [][Next]_vars

-----------------------------------------------------------------------------
(* Overlapping runs: two workflow runs call postOrUpdateComment at once.   *)

\* bodies the overlapping runs pass: the direct ones and the formatter's
RaceBodies == DirectBodies \cup { format(Parse(d), 1) : d \in ActionDocs }

\* the comments of PR 1 before the overlapping runs: none, one of any kind,
\* or two of which the second is owned
RaceKinds ==
  SeqsUpTo(InitKinds, 1) \cup { <<k, o>> : k \in InitKinds, o \in OtherKinds }

\* PR 2 starts with no comment
RaceInit ==
  /\ accountType \in {"Bot", "User"}
  /\ \E k1 \in RaceKinds :
       comments = [p \in PRs |-> IF p = 1 THEN InitList(1, k1) ELSE << >>]
  /\ nextId = 2 * MaxInitComments + 1
  /\ initComments = comments
  /\ run = [r \in Runs |-> IdleRun]
  /\ FmtIdle
  /\ ResIdle
  /\ UnitIdle
  /\ ActIdle
  /\ overlap = FALSE

\* postOrUpdateComment is entered with no regard to the other run; overlap
\* records that a call was entered while another one was in progress
CallConcurrent(r) ==
  /\ run[r].pc = "idle"
  /\ \E body \in RaceBodies, prNumber \in {NULL} \cup PRs :
       run' = [run EXCEPT ![r] =
                 [IdleRun EXCEPT !.pc = "called",
                                 !.origin = IF body \in DirectBodies THEN "direct" ELSE "action",
                                 !.body = body, !.prNumber = prNumber]]
  /\ overlap' = (overlap \/ \E q \in Runs \ {r} : Active(q))
  /\ UNCHANGED <<forgeVars, fmt, res, unit, act>>

RaceNext ==
  \E r \in Runs :
    \/ CallConcurrent(r)
    \/ Resolve(r)
    \/ ListReturn(r)
    \/ ListFail(r)
    \/ CreateReturn(r)
    \/ CreateFail(r)
    \/ UpdateReturn(r)
    \/ UpdateFail(r)

SpecRace == RaceInit /\ [][RaceNext]_vars

-----------------------------------------------------------------------------
(* The resolver on its own: one resolvePRContext call.                     *)

\* resolvePRContext(eventFilePath, eventName, shaInput) is entered
ResInit ==
  /\ accountType = "Bot"
  /\ comments = [p \in PRs |-> << >>]
  /\ nextId = 1
  /\ initComments = comments
  /\ run = [r \in Runs |-> IdleRun]
  /\ FmtIdle
  /\ UnitIdle
  /\ ActIdle
  /\ overlap = FALSE
  /\ res \in { [ pc |-> "called", context |-> c, hasOctokit |-> o, file |-> f,
                 eventName |-> n, shaInput |-> s, lookups |-> << >>,
                 result |-> NoResult ] :
               c \in LiveContexts, o \in BOOLEAN, f \in EventFiles,
               n \in EventNameArgs, s \in {NULLSTR, "sha-input"} }

\* the call runs to its return, to an exception or to the commit lookup
ResolveRun ==
  /\ res.pc = "called"
  /\ LET out == ResolveOutcome(res.context, res.hasOctokit, res.file, res.eventName,
                               res.shaInput)
     IN res' = [res EXCEPT !.pc = out.pc, !.result = out.result,
                           !.lookups = IF out.pc = "lookup"
                                       THEN <<Lookup(out.sha, "pending", << >>)>>
                                       ELSE << >>]
  /\ UNCHANGED <<forgeVars, run, fmt, unit, act, overlap>>

\* listPullRequestsAssociatedWithCommit resolves
LookupReturn ==
  /\ res.pc = "lookup"
  /\ \E prs \in SeqsUpTo(LookupPRs, MaxLookupPRs) :
       res' = [res EXCEPT !.pc = "returned", !.result.prNumber = SelectPR(prs),
                          !.lookups[1].response = "ok", !.lookups[1].data = prs]
  /\ UNCHANGED <<forgeVars, run, fmt, unit, act, overlap>>

\* mutant: the rejection of the lookup leaves findPRByCommit
LookupFail_Raised ==
  /\ res.pc = "lookup"
  /\ res' = [res EXCEPT !.pc = "raised", !.lookups[1].response = "failed"]
  /\ UNCHANGED <<forgeVars, run, fmt, unit, act, overlap>>

\* listPullRequestsAssociatedWithCommit rejects: the error is swallowed
LookupFail ==
  /\ res.pc = "lookup"
  /\ res' = [res EXCEPT !.pc = "returned", !.result.prNumber = NULL,
                        !.lookups[1].response = "failed"]
  /\ UNCHANGED <<forgeVars, run, fmt, unit, act, overlap>>

ResNext == ResolveRun \/ LookupReturn \/ LookupFail

SpecResolver == ResInit /\ [][ResNext]_vars

-----
(* The formatter on its own: parse a document, format it.                  *)

FmtInit ==
  /\ accountType = "Bot"
  /\ comments = [p \in PRs |-> << >>]
  /\ nextId = 1
  /\ initComments = comments
  /\ run = [r \in Runs |-> IdleRun]
  /\ ResIdle
  /\ UnitIdle
  /\ ActIdle
  /\ overlap = FALSE
  /\ fmt \in { [ pc |-> "start", trivyData |-> d, maxRows |-> m, results |-> Parse(d), body |-> EMPTY ] :
              d \in TrivyDocs(MaxVulns), m \in 1..MaxRowLimit }

\* index.js: formatter.format(results, config.maxTableRows)
FormatCall ==
  /\ fmt.pc = "start"
  /\ fmt' = [fmt EXCEPT !.pc = "formatted", !.body = format(fmt.results, fmt.maxRows)]
  /\ UNCHANGED <<forgeVars, run, res, unit, act, overlap>>

FmtNext == FormatCall

SpecFormat == FmtInit /\ [][FmtNext]_vars

-----------------------------------------------------------------------------
(* extractPRNumber on its own: one call on a payload and an event type.    *)

\* payloads given to extractPRNumber: the shapes of the resolver runs, a
\* pull_request whose number is null, and pull_requests whose first element
\* is null or lacks a number while a later element has one
ExtractPullRequests == PullRequestShapes(1) \cup { PullRequest(NULL) }

ExtractWorkflowRuns ==
  WorkflowRunShapes \cup { WorkflowRun(TRUE, <<NullElement, Element(4)>>),
                           WorkflowRun(TRUE, <<Element(UNDEFINED), Element(4)>>) }

ExtractEvents ==
  { NullEvent } \cup { Event(pr, wr) : pr \in ExtractPullRequests, wr \in ExtractWorkflowRuns }

ExtractEventNames == EventNameArgs \cup { "pull_request_target" }

ExtractInit ==
  /\ accountType = "Bot"
  /\ comments = [p \in PRs |-> << >>]
  /\ nextId = 1
  /\ initComments = comments
  /\ run = [r \in Runs |-> IdleRun]
  /\ FmtIdle
  /\ ResIdle
  /\ ActIdle
  /\ overlap = FALSE
  /\ unit \in { [ pc |-> "called", event |-> e, eventName |-> n, value |-> NULL ] :
                e \in ExtractEvents, n \in ExtractEventNames }

\* extractPRNumber(event, eventName) returns a value or throws
ExtractCall ==
  /\ unit.pc = "called"
  /\ LET out == extractPRNumber(unit.event, unit.eventName)
     IN unit' = [unit EXCEPT !.pc = IF out.threw THEN "raised" ELSE "returned",
                             !.value = out.value]
  /\ UNCHANGED <<forgeVars, run, fmt, res, act, overlap>>

ExtractNext == ExtractCall

SpecExtract == ExtractInit /\ [][ExtractNext]_vars

-----------------------------------------------------------------------------
(* extractCommitSHA on its own: one call on four SHA locations.            *)

\* what a SHA location may hold: null, undefined, the empty string, a SHA
ShaValues(sha) == { NULLSTR, UNDEFSTR, "", sha }

\* the payload and the event-type tag play no part in extractCommitSHA
ShaContexts ==
  { Context(Event(NoPullRequest, NoWorkflowRun), h, a, "push", c) :
      h \in ShaValues("sha-head"), a \in ShaValues("sha-after"),
      c \in ShaValues("sha-context") }

ShaInit ==
  /\ accountType = "Bot"
  /\ comments = [p \in PRs |-> << >>]
  /\ nextId = 1
  /\ initComments = comments
  /\ run = [r \in Runs |-> IdleRun]
  /\ FmtIdle
  /\ ResIdle
  /\ ActIdle
  /\ overlap = FALSE
  /\ unit \in { [ pc |-> "called", context |-> c, shaInput |-> s, value |-> NULLSTR ] :
                c \in ShaContexts, s \in ShaValues("sha-input") }

\* extractCommitSHA(shaInput) returns
ShaCall ==
  /\ unit.pc = "called"
  /\ unit' = [unit EXCEPT !.pc = "returned",
                          !.value = extractCommitSHA(unit.context, unit.shaInput)]
  /\ UNCHANGED <<forgeVars, run, fmt, res, act, overlap>>

ShaNext == ShaCall

SpecSHA == ShaInit /\ [][ShaNext]_vars

-----------------------------------------------------------------------------
(* The entry point: one run of index.js.                                   *)

\* Number.NaN, the result of parseInt on a text that is no number
NaN == 0 - 2

\* parseInt(text, 10) on the max-table-rows inputs of the model
parseInt(text) ==
  CASE text = "2" -> 2
    [] text = "0" -> 0
    [] OTHER -> NaN

isNaN(v) == v = NaN

\* the inputs of the action (core.getInput); "" is an input that is not given
Inputs(resultsFile, githubToken, maxTableRows, eventFile, eventName, artifactName, eventArtifactName) ==
  [ resultsFile |-> resultsFile, githubToken |-> githubToken,
    maxTableRows |-> maxTableRows, eventFile |-> eventFile, eventName |-> eventName,
    artifactName |-> artifactName, eventArtifactName |-> eventArtifactName ]

\* new Config(); "" is process.env.X of a variable that is not set
Config(inputs, GITHUB_EVENT_PATH, GITHUB_EVENT_NAME) ==
  [ resultsFile |-> inputs.resultsFile,
    githubToken |-> inputs.githubToken,
    maxTableRows |-> IF inputs.maxTableRows # "" THEN parseInt(inputs.maxTableRows) ELSE 20,
    eventFile |-> IF inputs.eventFile # "" THEN inputs.eventFile ELSE GITHUB_EVENT_PATH,
    eventName |-> IF inputs.eventName # "" THEN inputs.eventName ELSE GITHUB_EVENT_NAME,
    artifactName |-> inputs.artifactName,
    eventArtifactName |-> inputs.eventArtifactName ]

\* config.validate(): the Error it throws, if any
validate(config) ==
  LET errors ==
        (IF config.resultsFile = "" THEN << <<"results-file input is required">> >> ELSE << >>)
        \o (IF config.githubToken = "" THEN << <<"github-token input is required">> >> ELSE << >>)
        \o (IF isNaN(config.maxTableRows) \/ config.maxTableRows <= 0
            THEN << <<"max-table-rows must be a positive number">> >> ELSE << >>)
  IN IF Len(errors) > 0
     THEN [ threw |-> TRUE,
            message |-> <<"Configuration validation failed: ">> \o Join(errors, <<", ">>) ]
     ELSE [ threw |-> FALSE, message |-> EMPTY ]

\* ArtifactHandler.isWorkflowRunContext
isWorkflowRunContext(context) == context.payload.workflow_run.present

\* new ContextResolver(github.context): the octokit parameter keeps its
\* default null
\* mutant: the entry point hands its API client to the resolver
ResolverHasOctokit_Passed == TRUE

ResolverHasOctokit == FALSE

\* mutant: postOrUpdateComment is called without the resolved PR number
ResolvedPRArgument_Omitted(prContext) == NULL

\* the second argument of postOrUpdateComment: prContext.prNumber
ResolvedPRArgument(prContext) == prContext.prNumber

\* the configuration of a run
ConfigOf(a) ==
  Config(a.inputs, a.GITHUB_EVENT_PATH, a.context.eventName)

\* one recorded call of the artifacts API
ArtifactCall(op) == [ op |-> op, status |-> "pending", message |-> "" ]

\* ArtifactHandler.cleanup(tempDir): rmSync removes the directory or throws,
\* and the error is logged
cleanup(a, removed) ==
  [a EXCEPT !.cleanups = @ + 1,
            !.dir = IF a.dir = "exists" /\ removed THEN "removed" ELSE @]

\* the catch block of run: setFailed, then cleanup if tempDir is set
Caught(a, message, removed) ==
  LET failed == [a EXCEPT !.pc = "end", !.failed = <<message>>]
  IN IF a.tempDir THEN cleanup(failed, removed) ELSE failed

\* lines 84-95: the outputs are set, then cleanup if tempDir is set
Completed(a, removed) ==
  LET ended == [a EXCEPT !.pc = "end", !.outputs = <<a.counts>>]
  IN IF a.tempDir THEN cleanup(ended, removed) ELSE ended

\* downloadArtifacts returns; index.js lines 44-52 take its paths
DownloadsReturned(a) ==
  [a EXCEPT !.pc = "resolve",
            !.resultsFilePath = IF a.downloaded.results THEN "downloaded"
                                ELSE ConfigOf(a).resultsFile,
            !.eventFilePath = IF a.downloaded.event THEN "downloaded"
                              ELSE ConfigOf(a).eventFile,
            !.tempDir = TRUE]

\* downloadArtifacts lines 68-94: the event artifact is downloaded if it is
\* asked for and listed
EventArtifactStep(a) ==
  IF ConfigOf(a).eventArtifactName # "" /\ ConfigOf(a).eventArtifactName \in a.artifacts
  THEN [a EXCEPT !.pc = "download", !.downloading = "event",
                 !.remote = Append(@, ArtifactCall("downloadArtifact"))]
  ELSE DownloadsReturned(a)

\* downloadArtifacts lines 46-66: the results artifact is downloaded if it is
\* asked for and listed
ResultsArtifactStep(a) ==
  IF ConfigOf(a).artifactName # "" /\ ConfigOf(a).artifactName \in a.artifacts
  THEN [a EXCEPT !.pc = "download", !.downloading = "results",
                 !.remote = Append(@, ArtifactCall("downloadArtifact"))]
  ELSE EventArtifactStep(a)

\* the last recorded artifacts call has settled
SettleRemote(a, status, message) ==
  [a EXCEPT !.remote = Settle(@, status, message)]

\* the artifacts the triggering workflow run may hold
ArtifactNames == { "trivy-results", "event-file" }

\* what an extracted artifact holds: a file, nothing, or the ZIP is corrupt
Extractions == { "file", "empty", "corrupt" }

\* the event file a path may lead to; the downloaded one is the pull_request
\* payload of the scanning workflow, which names PR 1
EventFilesAt(path, context) ==
  IF path = "" THEN { NoFile }
  ELSE IF path = "env" THEN { JsonFile(context.payload) }
  ELSE IF path = "downloaded" THEN { JsonFile(Event(PullRequest(1), NoWorkflowRun)) }
  ELSE { MissingFile, JsonFile(Event(PullRequest(1), NoWorkflowRun)),
         JsonFile(Event(NoPullRequest, NoWorkflowRun)) }

\* the results file a path may lead to: a report, or no file
MissingResults == [ Results |-> << >>, missing |-> TRUE ]

ResultsAt(path) ==
  IF path = "downloaded" THEN ActionDocs ELSE ActionDocs \cup { MissingResults }

\* the live contexts of the entry-point runs: a pull_request on PR 2, a
\* workflow_run (of a fork, of PR 2, with a null element), a push, a
\* workflow_call
ActionContexts ==
  { Context(Event(PullRequest(2), NoWorkflowRun), UNDEFSTR, "", "pull_request", "sha-context"),
    Context(Event(NoPullRequest, WorkflowRun(TRUE, << >>)), UNDEFSTR, "", "workflow_run",
            "sha-context"),
    Context(Event(NoPullRequest, WorkflowRun(TRUE, <<Element(2)>>)), UNDEFSTR, "",
            "workflow_run", "sha-context"),
    Context(Event(NoPullRequest, WorkflowRun(TRUE, <<NullElement>>)), UNDEFSTR, "",
            "workflow_run", "sha-context"),
    Context(Event(NoPullRequest, NoWorkflowRun), "sha-head", "sha-after", "push",
            "sha-context"),
    Context(Event(NoPullRequest, NoWorkflowRun), UNDEFSTR, "", "workflow_call",
            "sha-context") }

\* the inputs of the entry-point runs: valid token and row limit with every
\* mix of the file and artifact inputs, and the invalid tokens and row limits
ActionInputs ==
  { Inputs(rf, "token", "2", ef, en, an, ean) :
      rf \in {"", "results.json"}, ef \in {"", "custom"}, en \in {"", "pull_request"},
      an \in {"", "trivy-results"}, ean \in {"", "event-file"} }
  \cup { Inputs("results.json", t, r, "", "", "", "") :
           t \in {"", "token"}, r \in {"", "0", "abc", "2"} }

\* each PR starts without comments, or with one comment the action owns
ActionComments ==
  { [p \in PRs |-> << >>],
    [p \in PRs |-> <<NewComment(p, "Bot", <<"##">> \o scanHeader \o <<"\n\n", "Old content">>)>>] }

ActInit ==
  /\ accountType = "Bot"
  /\ comments \in ActionComments
  /\ nextId = 2 * MaxInitComments + 1
  /\ initComments = comments
  /\ run = [r \in Runs |-> IdleRun]
  /\ FmtIdle
  /\ ResIdle
  /\ UnitIdle
  /\ overlap = FALSE
  /\ act \in { [ pc |-> "start", inputs |-> i, context |-> c, GITHUB_EVENT_PATH |-> e,
                 dir |-> "none", tempDir |-> FALSE, cleanups |-> 0,
                 remote |-> << >>, artifacts |-> {}, downloading |-> "",
                 downloaded |-> [ results |-> FALSE, event |-> FALSE ],
                 resultsFilePath |-> "", eventFilePath |-> "",
                 resolves |-> 0, posts |-> 0,
                 counts |-> Parse([Results |-> << >>]).counts,
                 outputs |-> << >>, failed |-> << >> ] :
               i \in ActionInputs, c \in ActionContexts, e \in {"", "env"} }

\* lines 19-41: validate; outside a workflow_run go on to the resolver, in
\* one create the temporary directory and issue the artifact listing
ActStart ==
  /\ act.pc = "start"
  /\ LET v == validate(ConfigOf(act))
     IN act' = IF v.threw THEN Caught(act, v.message, FALSE)
               ELSE IF isWorkflowRunContext(act.context)
               THEN [act EXCEPT !.pc = "listArtifacts", !.dir = "exists",
                                !.remote = <<ArtifactCall("listWorkflowRunArtifacts")>>]
               ELSE [act EXCEPT !.pc = "resolve",
                                !.resultsFilePath = ConfigOf(act).resultsFile,
                                !.eventFilePath = ConfigOf(act).eventFile]
  /\ UNCHANGED <<forgeVars, run, fmt, res, unit, overlap>>

\* listWorkflowRunArtifacts resolves
ListArtifactsReturn ==
  /\ act.pc = "listArtifacts"
  /\ \E names \in SUBSET ArtifactNames :
       act' = ResultsArtifactStep([SettleRemote(act, "ok", "") EXCEPT !.artifacts = names])
  /\ UNCHANGED <<forgeVars, run, fmt, res, unit, overlap>>

\* listWorkflowRunArtifacts rejects: downloadArtifacts throws before index.js
\* has assigned tempDir
ListArtifactsFail ==
  /\ act.pc = "listArtifacts"
  /\ \E msg \in TransportMessages, removed \in BOOLEAN :
       act' = Caught(SettleRemote(act, "failed", msg),
                     <<"Failed to list artifacts: ", msg>>, removed)
  /\ UNCHANGED <<forgeVars, run, fmt, res, unit, overlap>>

\* downloadArtifact resolves: the ZIP is written and extracted
DownloadReturn ==
  /\ act.pc = "download"
  /\ \E extraction \in Extractions, removed \in BOOLEAN :
       LET settled == SettleRemote(act, "ok", "")
           got == [settled EXCEPT !.downloaded[act.downloading] = (extraction = "file")]
       IN act' = IF extraction = "corrupt"
                 THEN Caught(settled, <<"Failed to extract ZIP: ", "Invalid format">>, removed)
                 ELSE IF act.downloading = "results" THEN EventArtifactStep(got)
                 ELSE DownloadsReturned(got)
  /\ UNCHANGED <<forgeVars, run, fmt, res, unit, overlap>>

\* downloadArtifact rejects
DownloadFail ==
  /\ act.pc = "download"
  /\ \E msg \in TransportMessages, removed \in BOOLEAN :
       act' = Caught(SettleRemote(act, "failed", msg),
                     <<"Failed to download artifact: ", msg>>, removed)
  /\ UNCHANGED <<forgeVars, run, fmt, res, unit, overlap>>

\* lines 56-57: resolvePRContext(eventFilePath, config.eventName) is called
\* on a resolver built without octokit; shaInput keeps its default null
StartResolve ==
  /\ act.pc = "resolve"
  /\ res.pc = "idle"
  /\ \E file \in EventFilesAt(act.eventFilePath, act.context) :
       res' = [ pc |-> "called", context |-> act.context, hasOctokit |-> ResolverHasOctokit,
                file |-> file, eventName |-> ConfigOf(act).eventName, shaInput |-> NULLSTR,
                lookups |-> << >>, result |-> NoResult ]
  /\ act' = [act EXCEPT !.pc = "resolving", !.resolves = @ + 1]
  /\ UNCHANGED <<forgeVars, run, fmt, unit, overlap>>

\* lines 59-78: the resolver has returned: parse the results file, format the
\* body and call postOrUpdateComment; an exception goes to the catch block
AfterResolve ==
  /\ act.pc = "resolving"
  /\ res.pc \in {"returned", "raised"}
  /\ \E doc \in ResultsAt(act.resultsFilePath), removed \in BOOLEAN :
       IF res.pc = "raised"
       THEN /\ act' = Caught(act, <<"Cannot read properties of null (reading 'number')">>,
                             removed)
            /\ run' = run
       ELSE IF doc = MissingResults
       THEN /\ act' = Caught(act, <<"Results file not found: ", act.resultsFilePath>>, removed)
            /\ run' = run
       ELSE LET results == Parse(doc)
                commentBody == format(results, ConfigOf(act).maxTableRows)
            IN /\ act' = [act EXCEPT !.pc = "posting", !.counts = results.counts,
                                     !.posts = @ + 1]
               /\ run' = [run EXCEPT ![1] =
                            [IdleRun EXCEPT !.pc = "called", !.origin = "action",
                                            !.body = commentBody,
                                            !.prNumber = ResolvedPRArgument(res.result),
                                            !.livePR = PullRequestNumber(act.context.payload)]]
  /\ UNCHANGED <<forgeVars, fmt, res, unit, overlap>>

\* mutant: an exception of postOrUpdateComment is swallowed
ActFinish_Swallowed ==
  /\ act.pc = "posting"
  /\ Finished(1)
  /\ \E removed \in BOOLEAN : act' = Completed(act, removed)
  /\ run' = run
  /\ UNCHANGED <<forgeVars, fmt, res, unit, overlap>>

\* mutant: a failed postOrUpdateComment is called once more
ActFinish_Retry ==
  /\ act.pc = "posting"
  /\ Finished(1)
  /\ \E removed \in BOOLEAN :
       IF run[1].pc = "failed" /\ act.posts < 2
       THEN /\ act' = [act EXCEPT !.posts = @ + 1]
            /\ run' = [run EXCEPT ![1] =
                         [IdleRun EXCEPT !.pc = "called", !.origin = "action",
                                         !.body = <<"##">> \o scanHeader,
                                         !.prNumber = ResolvedPRArgument(res.result),
                                         !.livePR = PullRequestNumber(act.context.payload)]]
       ELSE /\ act' = IF run[1].pc = "failed" THEN Caught(act, run[1].error, removed)
                      ELSE Completed(act, removed)
            /\ run' = run
  /\ UNCHANGED <<forgeVars, fmt, res, unit, overlap>>

\* lines 80-110: postOrUpdateComment has returned or thrown: set the outputs
\* or mark the run failed, then clean up
ActFinish ==
  /\ act.pc = "posting"
  /\ Finished(1)
  /\ \E removed \in BOOLEAN :
       act' = IF run[1].pc = "failed" THEN Caught(act, run[1].error, removed)
              ELSE Completed(act, removed)
  /\ run' = run
  /\ UNCHANGED <<forgeVars, fmt, res, unit, overlap>>

ActNext ==
  \/ ActStart
  \/ ListArtifactsReturn
  \/ ListArtifactsFail
  \/ DownloadReturn
  \/ DownloadFail
  \/ StartResolve
  \/ ResolveRun
  \/ AfterResolve
  \/ Resolve(1)
  \/ ListReturn(1)
  \/ ListFail(1)
  \/ CreateReturn(1)
  \/ CreateFail(1)
  \/ UpdateReturn(1)
  \/ UpdateFail(1)
  \/ ActFinish

SpecAction == ActInit /\ [][ActNext]_vars

-----------------------------------------------------------------------------
(* Properties of the commenter and the formatter.                          *)

\* the positions of a list whose comment has author type Bot and a body with
\* the header
Matching(list) ==
  { i \in 1..Len(list) :
      list[i].user_type = "Bot" /\ Includes(list[i].body, scanHeader) }

\* the number of comments of a list owned by this system
OwnedCount(list) == Cardinality(Matching(list))

Ops(calls) == [i \in 1..Len(calls) |-> calls[i].op]

\* the PR a finished or running call listed
TargetPR(r) == run[r].calls[1].issue_number

\* C1: a PR that starts with at most one owned comment (author type Bot and
\* body with the scan header) has at most one owned comment whenever no run
\* is in progress, after any sequence of non-overlapping runs, failed or not.
C1_AtMostOneOwnedComment ==
  \A p \in PRs :
    (OwnedCount(initComments[p]) <= 1 /\ \A r \in Runs : ~Active(r))
      => OwnedCount(comments[p]) <= 1

\* C1 witness: two runs have finished on a PR that started with one owned
\* comment; one of them failed after a create, and one owned comment is left.
C1_Witness ==
  \E p \in PRs :
    /\ OwnedCount(initComments[p]) <= 1
    /\ run[1].pc = "done" /\ run[2].pc \in {"done", "failed"}
    /\ TargetPR(1) = p /\ TargetPR(2) = p
    /\ Ops(run[1].calls) = <<"list", "create">>
    /\ accountType = "Bot"
    /\ OwnedCount(comments[p]) = 1

\* C2: every body that format() produces contains the scan header that
\* findExistingComment searches for.
C2_EveryBodyHasScanHeader ==
  fmt.pc = "formatted" => Includes(fmt.body, scanHeader)

\* C3: two consecutive runs of the action on one PR under a bot account, the
\* PR having no owned comment before: the second run updates the comment the
\* first run created and creates nothing, and the PR gains exactly one comment.
C3_SecondActionRunUpdates ==
  \A p \in PRs :
    ( /\ run[1].pc = "done" /\ run[2].pc = "done"
      /\ run[1].origin = "action" /\ run[2].origin = "action"
      /\ accountType = "Bot"
      /\ TargetPR(1) = p /\ TargetPR(2) = p
      /\ OwnedCount(initComments[p]) = 0 )
    => ( /\ Ops(run[1].calls) = <<"list", "create">>
         /\ Ops(run[2].calls) = <<"list", "update">>
         /\ run[2].calls[2].comment_id = run[1].calls[2].comment_id
         /\ Len(comments[p]) = Len(initComments[p]) + 1 )

\* C4: two calls of postOrUpdateComment in sequence on one PR that had no
\* owned comment, the first call's comment being locatable (bot account, body
\* with the header): one create in the first call, one update of that comment
\* in the second, never two creates.
C4_OneCreateThenOneUpdate ==
  \A p \in PRs :
    ( /\ run[1].pc = "done" /\ run[2].pc = "done"
      /\ TargetPR(1) = p /\ TargetPR(2) = p
      /\ OwnedCount(initComments[p]) = 0
      /\ accountType = "Bot"
      /\ Includes(run[1].calls[2].body, scanHeader) )
    => ( /\ Ops(run[1].calls) = <<"list", "create">>
         /\ Ops(run[2].calls) = <<"list", "update">>
         /\ run[2].calls[2].comment_id = run[1].calls[2].comment_id )

\* C4 witness: both calls are done on such a PR and the second one updated.
C4_Witness ==
  \E p \in PRs :
    /\ run[1].pc = "done" /\ run[2].pc = "done"
    /\ TargetPR(1) = p /\ TargetPR(2) = p
    /\ OwnedCount(initComments[p]) = 0
    /\ accountType = "Bot"
    /\ Includes(run[1].calls[2].body, scanHeader)
    /\ Ops(run[2].calls) = <<"list", "update">>

\* C5: a call with an effective PR number and no failing remote call issues
\* exactly one mutating call: the update of the located comment with the new
\* body iff a comment was located, else the create on the effective PR; true
\* is returned only once that call has completed.
C5_ExactlyOneMutatingCall ==
  \A r \in Runs :
    /\ run[r].pc = "updating" =>
         /\ OwnedCount(comments[run[r].pr]) > 0
         /\ run[r].existingComment # << >>
         /\ \E i \in Matching(comments[run[r].pr]) :
              comments[run[r].pr][i] = run[r].existingComment[1]
         /\ run[r].calls = <<[Call("list", run[r].pr, NULL, EMPTY) EXCEPT !.status = "ok"],
                             Call("update", NULL, run[r].existingComment[1].id, run[r].body)>>
    /\ run[r].pc = "creating" =>
         /\ OwnedCount(comments[run[r].pr]) = 0
         /\ run[r].existingComment = << >>
         /\ run[r].calls = <<[Call("list", run[r].pr, NULL, EMPTY) EXCEPT !.status = "ok"],
                             Call("create", run[r].pr, NULL, run[r].body)>>
    /\ run[r].pc = "done" =>
         /\ Ops(run[r].calls) \in {<<"list", "create">>, <<"list", "update">>}
         /\ \A i \in 1..2 : run[r].calls[i].status = "ok"
         /\ run[r].result = "true"
    /\ run[r].result = "true" => run[r].pc = "done"

\* C5 witness: one finished call updated and the other created.
C5_Witness ==
  /\ run[1].pc = "done" /\ Ops(run[1].calls) = <<"list", "update">>
  /\ run[2].pc = "done" /\ Ops(run[2].calls) = <<"list", "create">>

\* C6: a call with no explicit PR number and no live pull_request number
\* issues no remote call, leaves the comments as they are, raises nothing and
\* returns false.
C6_SkipWithoutPR ==
  [][ \A r \in Runs :
        ( /\ run[r].pc = "called"
          /\ run[r].prNumber = NULL /\ run[r].livePR = UNDEFINED
          /\ run'[r] # run[r] )
        => ( /\ run'[r].pc = "skipped"
             /\ run'[r].calls = << >>
             /\ run'[r].result = "false"
             /\ run'[r].error = EMPTY
             /\ comments' = comments ) ]_vars

\* C6 witness: a call was skipped after another had commented.
C6_Witness ==
  /\ run[1].pc = "done"
  /\ run[2].pc = "skipped" /\ run[2].calls = << >> /\ run[2].result = "false"

\* the prefix of the phase a remote call belongs to
PhasePrefix(op) ==
  CASE op = "list" -> "Failed to list PR comments: "
    [] op = "create" -> "Failed to create comment: "
    [] op = "update" -> "Failed to update comment: "

\* C7: a transport failure of the list, create or update call ends the call
\* as failed: the error is the phase prefix followed by the transport
\* message, true is not returned, and after a failed list call no create or
\* update call is issued.
C7_TransportFailureRaised ==
  \A r \in Runs :
    /\ (\E i \in 1..Len(run[r].calls) : run[r].calls[i].status = "failed")
         => run[r].pc = "failed"
    /\ run[r].pc = "failed" =>
         LET last == run[r].calls[Len(run[r].calls)]
         IN /\ last.status = "failed"
            /\ last.message \in TransportMessages
            /\ run[r].error = <<PhasePrefix(last.op), last.message>>
            /\ run[r].result # "true"
    /\ (run[r].calls # << >> /\ run[r].calls[1].status = "failed")
         => Len(run[r].calls) = 1

\* C7 witness: one call failed in its list phase, the other in its update.
C7_Witness ==
  /\ run[1].pc = "failed" /\ Ops(run[1].calls) = <<"list">>
  /\ run[2].pc = "failed" /\ Ops(run[2].calls) = <<"list", "update">>
  /\ run[2].error = <<"Failed to update comment: ", "Not Found">>

\* C8: the located comment is the first one in listing order whose author
\* type is exactly Bot and whose body contains the exact header; it is null
\* when no comment satisfies both.  (Runs do not overlap, so the listed
\* comments are still the PR's comments while the call is in flight.)
C8_FirstMatchingComment ==
  \A r \in Runs :
    run[r].pc \in {"creating", "updating"} =>
      LET list == comments[run[r].pr]
      IN IF Matching(list) = {}
         THEN run[r].existingComment = << >>
         ELSE \E i \in Matching(list) :
                /\ \A j \in Matching(list) : i <= j
                /\ run[r].existingComment = <<list[i]>>

\* C8 witness: the first comment has the header but a User author, the second
\* one matches and is the located one.
C8_Witness ==
  \E r \in Runs :
    /\ run[r].pc = "updating"
    /\ LET list == comments[run[r].pr]
       IN /\ Len(list) >= 2
          /\ list[1].user_type = "User" /\ Includes(list[1].body, scanHeader)
          /\ 2 \in Matching(list)
          /\ run[r].existingComment = <<list[2]>>

\* C9: the effective PR number is the explicit argument when one is given,
\* else the live pull_request number; the list call and the create call
\* target exactly that number.
C9_EffectivePRNumber ==
  \A r \in Runs :
    run[r].pc \in {"listing", "creating", "updating"} =>
      LET effective == IF run[r].prNumber # NULL THEN run[r].prNumber ELSE run[r].livePR
      IN /\ run[r].pr = effective
         /\ run[r].calls[1].op = "list"
         /\ run[r].calls[1].issue_number = effective
         /\ run[r].pc = "creating" =>
              (run[r].calls[2].op = "create" /\ run[r].calls[2].issue_number = effective)

\* C9 witness: the create call goes to the explicit PR 1 while the live
\* payload names PR 2.
C9_Witness ==
  \E r \in Runs :
    /\ run[r].pc = "creating"
    /\ run[r].prNumber = 1 /\ run[r].livePR = 2
    /\ run[r].calls[2].issue_number = 1

-----------------------------------------------------------------------------
(* Properties of the resolver.                                             *)

\* C10: resolvePRContext never raises and always returns its value, for
\* every event-file outcome, live payload shape and commit-lookup outcome;
\* when the event file cannot be read or parsed, prNumber is absent and
\* eventName is the explicit argument if given, else the live event-type
\* tag, else the empty string.
C10_ResolveNeverRaises ==
  /\ res.pc # "raised"
  /\ (res.pc = "returned" /\ res.file.kind \in {"missing", "invalid"}) =>
       /\ res.result.prNumber = NULL
       /\ res.result.eventName =
            IF res.eventName \notin {UNDEFSTR, ""} THEN res.eventName
            ELSE IF res.context.eventName # UNDEFSTR THEN res.context.eventName
            ELSE ""

-----------------------------------------------------------------------------
(* Properties of the resolver's helpers.                                   *)

\* a value that is no PR number: null, undefined (or 0)
Absent(v) == ~Truthy(v)

\* two results name the same PR number, or are both absent
SameNumber(a, b) == IF Truthy(a) THEN a = b ELSE Absent(b)

\* the number of the first element of workflow_run.pull_requests when the
\* sequence is present and non-empty, else absent
FirstOfWorkflowRun(event) ==
  LET wr == event.workflow_run
  IN IF wr.present /\ wr.hasPullRequests /\ Len(wr.pull_requests) > 0
     THEN IF wr.pull_requests[1].isNull THEN UNDEFINED ELSE wr.pull_requests[1].number
     ELSE NULL

\* event.pull_request.number if present, else absent
NumberOfPullRequest(event) ==
  IF event.pull_request.present /\ Truthy(event.pull_request.number)
  THEN event.pull_request.number
  ELSE NULL

RecognizedTypes == { "pull_request", "pull_request_target", "workflow_run", "workflow_call", "push" }

\* C11: extractPRNumber never raises, whatever the payload and the event
\* type: a null event yields absent, and every payload shape (a first
\* element of pull_requests that is null or lacks a number included) yields
\* a PR number or absent.
C11_ExtractNeverRaises ==
  /\ unit.pc # "raised"
  /\ (unit.pc = "returned" /\ unit.event.isNull) => Absent(unit.value)

\* C12: for a recognized event type extractPRNumber equals the reference on
\* every payload: pull_request, pull_request_target, workflow_call and push
\* return event.pull_request.number if present and else absent; workflow_run
\* returns the number of the first element of workflow_run.pull_requests
\* when the sequence is non-empty and else absent.
C12_RecognizedTypesReference ==
  (unit.pc # "called" /\ unit.eventName \in RecognizedTypes) =>
    /\ unit.pc = "returned"
    /\ SameNumber(unit.value,
                  IF unit.eventName = "workflow_run" THEN FirstOfWorkflowRun(unit.event)
                  ELSE NumberOfPullRequest(unit.event))

\* C13: for any other event type extractPRNumber returns
\* event.pull_request.number when there is one; when pull_request is missing
\* or has no number it returns the number of the first element of
\* workflow_run.pull_requests if that sequence is present and non-empty; it
\* returns absent only when both yield nothing.
C13_UnknownTypeFallback ==
  (unit.pc # "called" /\ unit.eventName \notin RecognizedTypes) =>
    /\ unit.pc = "returned"
    /\ SameNumber(unit.value,
                  IF Truthy(NumberOfPullRequest(unit.event))
                  THEN NumberOfPullRequest(unit.event)
                  ELSE FirstOfWorkflowRun(unit.event))

\* the first non-empty of the four SHA locations in the order explicit
\* input, payload.head_commit.id, payload.after, context sha; null if none
PrioritySHA(context, shaInput) ==
  LET locations == <<shaInput, context.head_commit_id, context.after, context.sha>>
      nonEmpty == { i \in 1..4 : locations[i] \notin {NULLSTR, UNDEFSTR, ""} }
  IN IF nonEmpty = {} THEN NULLSTR
     ELSE locations[CHOOSE i \in nonEmpty : \A j \in nonEmpty : i <= j]

\* C14: extractCommitSHA returns the first non-empty value in the order
\* explicit input > payload.head_commit.id > payload.after > context sha,
\* whatever mix of null, undefined, empty string and SHA the four locations
\* hold; with no non-empty location the result is null, never "".
C14_ShaPriorityOrder ==
  unit.pc = "returned" =>
    /\ unit.value = PrioritySHA(unit.context, unit.shaInput)
    /\ unit.value # ""
    /\ unit.value # UNDEFSTR

\* an empty explicit input and a null head_commit.id are skipped, after wins
\* over the context sha
C14_Witness ==
  /\ unit.pc = "returned"
  /\ unit.shaInput = ""
  /\ unit.context.head_commit_id = NULLSTR
  /\ unit.context.after = "sha-after"
  /\ unit.context.sha = "sha-context"
  /\ unit.value = "sha-after"

-----------------------------------------------------------------------------
(* Properties of resolvePRContext.                                         *)

\* the event type resolvePRContext works with: the argument when non-empty,
\* else the tag of the live context, else ""
EffectiveEventType ==
  IF res.eventName \notin {UNDEFSTR, NULLSTR, ""} THEN res.eventName
  ELSE IF res.context.eventName \notin {UNDEFSTR, NULLSTR, ""} THEN res.context.eventName
  ELSE ""

\* the number of the first open pull request of a lookup response, else of
\* its first pull request, else absent
FirstOpenOrFirst(data) ==
  LET open == { i \in 1..Len(data) : data[i].state = "open" }
  IN IF open # {} THEN data[CHOOSE i \in open : \A j \in open : i <= j].number
     ELSE IF Len(data) > 0 THEN data[1].number
     ELSE NULL

\* the commit lookup has resolved with a list of pull requests
LookupAnswered == Len(res.lookups) = 1 /\ res.lookups[1].response = "ok"

\* findPRByCommit is reached: no event file path, effective type push or
\* workflow_call, no PR number in the live payload, a SHA at some location
ShaResolutionCase ==
  /\ res.file.kind = "none"
  /\ EffectiveEventType \in {"push", "workflow_call"}
  /\ Absent(NumberOfPullRequest(res.context.payload))
  /\ PrioritySHA(res.context, res.shaInput) # NULLSTR

\* C15: whatever list the commit lookup returns, findPRByCommit returns the
\* number of the first pull request in returned order whose state is open;
\* with none open the number of the first pull request; absent for the
\* empty list.
C15_FirstOpenElseFirst ==
  (res.pc = "returned" /\ LookupAnswered) =>
    res.result.prNumber = FirstOpenOrFirst(res.lookups[1].data)

\* a closed pull request precedes an open one: the open one is returned
C15_Witness ==
  /\ res.pc = "returned"
  /\ LookupAnswered
  /\ Len(res.lookups[1].data) = 2
  /\ res.lookups[1].data[1].state = "closed"
  /\ res.lookups[1].data[2].state = "open"
  /\ res.lookups[1].data[1].number # res.lookups[1].data[2].number
  /\ res.result.prNumber = res.lookups[1].data[2].number

\* C16: findPRByCommit never raises: without an API client it returns
\* absent and no remote call is issued; when the lookup call fails it
\* returns absent; in both cases resolvePRContext completes and returns its
\* metadata with prNumber absent.
C16_LookupNeverRaises ==
  /\ (res.pc # "called" /\ ShaResolutionCase /\ ~res.hasOctokit) =>
        /\ res.pc = "returned"
        /\ res.lookups = << >>
        /\ res.result = Resolved(NULL, res.context.payload.workflow_run.present,
                                 EffectiveEventType)
  /\ (Len(res.lookups) = 1 /\ res.lookups[1].response = "failed") =>
        /\ res.pc = "returned"
        /\ res.result = Resolved(NULL, res.context.payload.workflow_run.present,
                                 EffectiveEventType)

\* the lookup call of a push run has failed and the run has returned
C16_Witness ==
  /\ res.pc = "returned"
  /\ Len(res.lookups) = 1
  /\ res.lookups[1].response = "failed"
  /\ res.result.prNumber = NULL
  /\ res.result.eventName = "push"

\* a push run without an API client has returned, a SHA being at hand
C16_WitnessNoClient ==
  /\ res.pc = "returned"
  /\ ShaResolutionCase
  /\ ~res.hasOctokit
  /\ res.lookups = << >>

\* C17: resolvePRContext issues the commit lookup only when no event file
\* path is given, the effective event type is push or workflow_call and the
\* live payload holds no PR number; for any other event type, with an event
\* file path, or with a PR number in the payload, no lookup is issued.
C17_LookupOnlyAsLastResort ==
  Len(res.lookups) > 0 =>
    /\ Len(res.lookups) = 1
    /\ res.file.kind = "none"
    /\ EffectiveEventType \in {"push", "workflow_call"}
    /\ Absent(NumberOfPullRequest(res.context.payload))

\* a workflow_call run has issued the lookup
C17_Witness ==
  /\ res.pc = "lookup"
  /\ Len(res.lookups) = 1
  /\ EffectiveEventType = "workflow_call"
  /\ res.context.payload.pull_request.present

\* C18: with an API client, no event file, effective event type push or
\* workflow_call, a live payload without pull_request and a SHA at some
\* location, the lookup is called with the SHA chosen by the priority order
\* and resolvePRContext returns as prNumber the PR selected from its result.
C18_CommitFallback ==
  ( /\ res.pc # "called"
    /\ res.hasOctokit
    /\ ShaResolutionCase
    /\ ~res.context.payload.pull_request.present ) =>
    /\ res.pc \in {"lookup", "returned"}
    /\ Len(res.lookups) = 1
    /\ res.lookups[1].commit_sha = PrioritySHA(res.context, res.shaInput)
    /\ (res.pc = "returned" /\ LookupAnswered) =>
          res.result.prNumber = FirstOpenOrFirst(res.lookups[1].data)

\* a push whose SHA is payload.after, the lookup returning one open PR
C18_Witness ==
  /\ res.pc = "returned"
  /\ res.hasOctokit
  /\ res.file.kind = "none"
  /\ EffectiveEventType = "push"
  /\ ~res.context.payload.pull_request.present
  /\ res.shaInput = NULLSTR
  /\ res.context.head_commit_id = UNDEFSTR
  /\ res.context.after = "sha-after"
  /\ res.context.sha = "sha-context"
  /\ res.lookups = <<Lookup("sha-after", "ok", <<[number |-> 5, state |-> "open"]>>)>>
  /\ res.result.prNumber = 5

\* what the event file alone yields for the effective event type
FromEventFile ==
  IF res.file.kind # "json" THEN NULL
  ELSE LET extracted == extractPRNumber(res.file.event, EffectiveEventType)
       IN IF extracted.threw THEN NULL ELSE extracted.value

\* C19: with an event file path, the prNumber resolvePRContext returns is
\* what the parsed file payload yields for the effective event type: the
\* live payload is not used, no lookup is issued, and a file that yields no
\* PR number gives prNumber absent even if the live payload has one.
C19_EventFileOnly ==
  (res.pc # "called" /\ res.file.kind # "none") =>
    /\ res.pc = "returned"
    /\ res.lookups = << >>
    /\ SameNumber(res.result.prNumber, FromEventFile)

\* the file has no PR number, the live payload has one: absent is returned
C19_Witness ==
  /\ res.pc = "returned"
  /\ res.file.kind = "json"
  /\ ~res.file.event.isNull
  /\ ~res.file.event.pull_request.present
  /\ EffectiveEventType = "pull_request"
  /\ res.context.payload.pull_request = PullRequest(2)
  /\ Absent(res.result.prNumber)

\* C20: the isWorkflowRun flag resolvePRContext returns is true exactly when
\* the live payload has a workflow_run field, whatever the event file holds,
\* the eventType argument and the event-type tag of the live context.
C20_FlagFollowsLivePayload ==
  res.pc = "returned" =>
    res.result.isWorkflowRun = res.context.payload.workflow_run.present

\* the file holds workflow_run, the argument and the live tag are
\* workflow_run, the live payload has no workflow_run: the flag is false
C20_Witness ==
  /\ res.pc = "returned"
  /\ res.file.kind = "json"
  /\ res.file.event.workflow_run.present
  /\ res.eventName = "workflow_run"
  /\ res.context.eventName = "workflow_run"
  /\ ~res.context.payload.workflow_run.present
  /\ ~res.result.isWorkflowRun

-----------------------------------------------------------------------------
(* Properties of a run of the entry point.                                 *)

\* the run was marked failed by config.validate()
ValidationFailed ==
  act.failed # << >> /\ act.failed[1][1] = "Configuration validation failed: "

\* the documented workflow_run pattern: the live trigger is workflow_run,
\* event-artifact-name is set and its artifact was found and extracted, no
\* event-name input; the downloaded event file names PR 1
WorkflowRunPattern ==
  /\ act.context.eventName = "workflow_run"
  /\ act.context.payload.workflow_run.present
  /\ act.inputs.eventArtifactName = "event-file"
  /\ "event-file" \in act.artifacts
  /\ act.downloaded.event
  /\ act.inputs.eventName = ""

\* the PR number in the live payload's pull_request, if any
LivePRNumber ==
  IF act.context.payload.pull_request.present
  THEN act.context.payload.pull_request.number
  ELSE UNDEFINED

\* the calls of a log that are still outstanding
Pending(calls) == { i \in 1..Len(calls) : calls[i].status = "pending" }

PendingLookups == { i \in 1..Len(res.lookups) : res.lookups[i].response = "pending" }

\* C21: in the documented workflow_run pattern a run extracts PR number n
\* (here 1) from the downloaded event file and posts or updates the comment
\* on PR n.
C21_WorkflowRunPattern ==
  (WorkflowRunPattern /\ act.posts > 0) =>
    /\ res.result.prNumber = 1
    /\ run[1].pc # "skipped"
    /\ run[1].calls # << >> => run[1].calls[1].issue_number = 1

\* C22: with a github-token and a valid row limit, validation accepts a run
\* that gives artifact-name and omits results-file; it rejects the run only
\* when neither results-file nor artifact-name is given.
C22_ArtifactNameInsteadOfResultsFile ==
  ( /\ act.pc # "start"
    /\ act.inputs.githubToken # ""
    /\ act.inputs.maxTableRows \in {"", "2"} ) =>
    (ValidationFailed <=> (act.inputs.resultsFile = "" /\ act.inputs.artifactName = ""))

\* C23: a failed list, create or update call marks the run failed with a
\* message that embeds the transport message; a run in which no PR number
\* can be resolved is not marked failed, issues no comment call and sets the
\* vulnerability-count outputs.
C23_OutcomeMapping ==
  (act.pc = "end" /\ act.posts > 0) =>
    /\ \A i \in 1..Len(run[1].calls) :
         run[1].calls[i].status = "failed" =>
           /\ act.failed # << >>
           /\ Includes(act.failed[1], <<run[1].calls[i].message>>)
           /\ act.outputs = << >>
    /\ (Absent(res.result.prNumber) /\ Absent(LivePRNumber)) =>
         /\ act.failed = << >>
         /\ run[1].calls = << >>
         /\ act.outputs = <<act.counts>>

\* the create call of a run has failed and the run has ended
C23_Witness ==
  /\ act.pc = "end"
  /\ Len(run[1].calls) = 2
  /\ run[1].calls[2].op = "create"
  /\ run[1].calls[2].status = "failed"
  /\ act.failed = << <<"Failed to create comment: ", "Not Found">> >>

\* a run without any PR number has ended with its outputs set
C23_WitnessSkipped ==
  /\ act.pc = "end"
  /\ act.posts = 1
  /\ run[1].pc = "skipped"
  /\ act.failed = << >>
  /\ act.outputs # << >>

\* C24: within a run at most one remote call is outstanding at any time;
\* the resolver is invoked once and has completed before the reconciler
\* starts; the reconciler is invoked once; inside it the list call is issued
\* exactly once and has completed before the single create or update call.
C24_SequentialCalls ==
  /\ Cardinality(Pending(act.remote)) + Cardinality(Pending(run[1].calls))
       + (IF res.pc = "idle" THEN 0 ELSE Cardinality(PendingLookups)) <= 1
  /\ act.resolves <= 1
  /\ act.posts <= 1
  /\ res.pc # "idle" => (act.resolves = 1 /\ Pending(act.remote) = {})
  /\ run[1].pc # "idle" => (act.posts = 1 /\ res.pc = "returned")
  /\ Len(run[1].calls) <= 2
  /\ Len(run[1].calls) >= 1 => run[1].calls[1].op = "list"
  /\ Len(run[1].calls) = 2 =>
       /\ run[1].calls[1].status = "ok"
       /\ run[1].calls[2].op \in {"create", "update"}

\* a workflow_run run has listed and downloaded artifacts, resolved, listed
\* the comments and created one
C24_Witness ==
  /\ act.pc = "end"
  /\ Len(act.remote) = 3
  /\ res.pc = "returned"
  /\ run[1].pc = "done"
  /\ Len(run[1].calls) = 2
  /\ run[1].calls[2].op = "create"

\* C28: every temporary artifact directory created during a run has had its
\* cleanup attempted when the run ends, on every path: success, failure of a
\* later step, and failure of the artifact listing, download or extraction
\* after the directory was created.
C28_TempDirCleanedUp ==
  (act.pc = "end" /\ act.dir # "none") => act.cleanups >= 1

\* C29: a run of the entry point never calls the commit lookup: the resolver
\* has no API client and no SHA input, so a push or workflow_call run whose
\* payload carries no pull_request resolves prNumber absent.
C29_NoCommitLookup ==
  /\ res.pc # "lookup"
  /\ res.pc # "idle" =>
       /\ res.lookups = << >>
       /\ ~res.hasOctokit
       /\ res.shaInput = NULLSTR
  /\ ( /\ res.pc = "returned"
       /\ res.result.eventName \in {"push", "workflow_call"}
       /\ ~act.context.payload.pull_request.present
       /\ ~res.file.event.pull_request.present ) => Absent(res.result.prNumber)

\* a push run without an event file, commit SHAs at hand, has resolved absent
C29_Witness ==
  /\ res.pc = "returned"
  /\ res.file.kind = "none"
  /\ res.result.eventName = "push"
  /\ res.context.after = "sha-after"
  /\ res.lookups = << >>
  /\ res.result.prNumber = NULL

\* C30: the PR that receives the comment is the resolver's prNumber when
\* present and else the live payload's pull_request number; postOrUpdateComment
\* skips only when both are absent.
C30_CommentTarget ==
  run[1].pc # "idle" =>
    LET target == IF Truthy(res.result.prNumber) THEN res.result.prNumber ELSE LivePRNumber
    IN IF Truthy(target)
       THEN /\ run[1].pc # "skipped"
            /\ run[1].pc # "called" => run[1].calls[1].issue_number = target
       ELSE /\ run[1].pc \in {"called", "skipped"}
            /\ run[1].calls = << >>

\* the event file is unreadable, the live payload names PR 2: the comment is
\* created on PR 2
C30_Witness ==
  /\ act.pc = "end"
  /\ run[1].pc = "done"
  /\ res.file.kind = "missing"
  /\ Absent(res.result.prNumber)
  /\ LivePRNumber = 2
  /\ run[1].calls[1].issue_number = 2

-----------------------------------------------------------------------------
(* Properties of overlapping runs.                                         *)

\* both runs created a comment on PR p, which had no owned comment, each from
\* a list response without the other's comment
BothCreated(p) ==
  /\ run[1].pc = "done" /\ run[2].pc = "done"
  /\ Ops(run[1].calls) = <<"list", "create">>
  /\ Ops(run[2].calls) = <<"list", "create">>
  /\ TargetPR(1) = p /\ TargetPR(2) = p
  /\ OwnedCount(initComments[p]) = 0

\* C25: a PR that had no owned comment has two or more owned comments only
\* if a call was entered while another was in progress; and when both runs
\* created on such a PR with bodies that carry the header under a bot
\* account, the runs overlapped and the PR has exactly two owned comments.
C25_DuplicateOnlyByRace ==
  \A p \in PRs :
    /\ (OwnedCount(initComments[p]) = 0 /\ OwnedCount(comments[p]) >= 2) => overlap
    /\ ( /\ BothCreated(p)
         /\ accountType = "Bot"
         /\ Includes(run[1].calls[2].body, scanHeader)
         /\ Includes(run[2].calls[2].body, scanHeader) )
       => (overlap /\ OwnedCount(comments[p]) = 2)

\* C25 witness: both runs listed PR p before either created, both creates
\* resolved, and the PR ends with two owned comments.
C25_Witness ==
  \E p \in PRs :
    /\ BothCreated(p)
    /\ overlap
    /\ OwnedCount(comments[p]) = 2
    /\ Len(comments[p]) = Len(initComments[p]) + 2

-----------------------------------------------------------------------------
(* The frame of postOrUpdateComment.                                       *)

\* run r leaves the program point pc in this step
Leaves(r, pc) == run[r].pc = pc /\ run'[r].pc # pc

\* every comment stays where it is, with its id and its author type
NothingDeleted ==
  \A p \in PRs :
    /\ Len(comments'[p]) >= Len(comments[p])
    /\ \A i \in 1..Len(comments[p]) :
         /\ comments'[p][i].id = comments[p][i].id
         /\ comments'[p][i].user_type = comments[p][i].user_type

\* the comments that differ before and after the step, appended ones included
ChangedComments ==
  { <<p, i>> \in PRs \X (1..(2 * MaxInitComments + 2)) :
      /\ i <= Len(comments'[p])
      /\ (i > Len(comments[p]) \/ comments'[p][i] # comments[p][i]) }

\* the update path of run r: no comment is added, and a comment that changes
\* is the located one, on the listed PR, and only its body changes
UpdateFrame(r) ==
  /\ \A p \in PRs : Len(comments'[p]) = Len(comments[p])
  /\ \A p \in PRs : \A i \in 1..Len(comments[p]) :
       comments'[p][i] # comments[p][i]
         => /\ p = run[r].pr
            /\ comments[p][i].id = run[r].existingComment[1].id
            /\ comments'[p][i] = [comments[p][i] EXCEPT !.body = run[r].body]
  /\ run'[r].pc = "done"
       => \E i \in 1..Len(comments[run[r].pr]) :
            /\ comments[run[r].pr][i].id = run[r].existingComment[1].id
            /\ comments'[run[r].pr][i].body = run[r].body

\* the create path of run r: every existing comment is unchanged, other PRs
\* are untouched, and a create that resolved appended exactly one comment
CreateFrame(r) ==
  /\ \A p \in PRs : \A i \in 1..Len(comments[p]) : comments'[p][i] = comments[p][i]
  /\ \A p \in PRs \ {run[r].pr} : comments'[p] = comments[p]
  /\ Len(comments'[run[r].pr]) <= Len(comments[run[r].pr]) + 1
  /\ run'[r].pc = "done"
       => /\ Len(comments'[run[r].pr]) = Len(comments[run[r].pr]) + 1
          /\ comments'[run[r].pr][Len(comments'[run[r].pr])].body = run[r].body

FrameOfStep ==
  /\ NothingDeleted
  /\ Cardinality(ChangedComments) <= 1
  /\ \A r \in Runs :
       /\ Leaves(r, "updating") => UpdateFrame(r)
       /\ Leaves(r, "creating") => CreateFrame(r)
  /\ (\A r \in Runs : ~Leaves(r, "updating") /\ ~Leaves(r, "creating"))
       => comments' = comments

\* C26: no step of a postOrUpdateComment run deletes a comment, and a step
\* changes at most one: the update path changes only the body of the located
\* comment and leaves every other comment as it was, further owned comments
\* and comments of users or without the header included; the create path
\* leaves every existing comment as it was and appends exactly one; comments
\* of other PRs are never touched; no other step changes a comment.
C26_FrameOfComments == [][FrameOfStep]_vars

\* C26 witness: a PR that started with two owned comments after a run that
\* updated the first one; the second one is as it was.
C26_Witness ==
  \E p \in PRs :
    /\ OwnedCount(initComments[p]) = 2
    /\ run[1].pc = "done" /\ run[2].pc = "idle"
    /\ Ops(run[1].calls) = <<"list", "update">>
    /\ TargetPR(1) = p
    /\ run[1].calls[2].comment_id = initComments[p][1].id
    /\ comments[p][1].body = run[1].calls[2].body
    /\ comments[p][1].body # initComments[p][1].body
    /\ comments[p][2] = initComments[p][2]

-----------------------------------------------------------------------------
(* The workflow_call probe of resolvePRContext.                            *)

\* a resolver without the probe, on the live payload of a workflow_call run:
\* the generic extraction, then the commit lookup when nothing was found
WithoutProbe ==
  LET extracted == extractPRNumber(res.context.payload, "workflow_call")
      prNumber == IF extracted.threw THEN NULL ELSE extracted.value
      sha == extractCommitSHA(res.context, res.shaInput)
  IN IF extracted.threw THEN [ pc |-> "raised", prNumber |-> NULL, sha |-> NULLSTR ]
     ELSE IF AttemptsShaResolution(prNumber, "workflow_call") /\ StrTruthy(sha)
     THEN IF res.hasOctokit
          THEN [ pc |-> "lookup", prNumber |-> prNumber, sha |-> sha ]
          ELSE [ pc |-> "returned", prNumber |-> NULL, sha |-> NULLSTR ]
     ELSE [ pc |-> "returned", prNumber |-> prNumber, sha |-> NULLSTR ]

\* a workflow_call run on the live payload has passed the probe
ProbeCase ==
  /\ res.pc # "called"
  /\ res.file.kind = "none"
  /\ EffectiveEventType = "workflow_call"

\* C27: for every live payload with effective event type workflow_call and
\* no event file, resolvePRContext issues the commit lookup exactly when a
\* resolver without the probe does, with the same SHA, and otherwise returns
\* the same prNumber; a pull_request.number the probe could find is the value
\* the generic extraction has already returned.
C27_ProbeIsRedundant ==
  ProbeCase =>
    /\ WithoutProbe.pc # "raised" /\ res.pc # "raised"
    /\ Len(res.lookups) = (IF WithoutProbe.pc = "lookup" THEN 1 ELSE 0)
    /\ WithoutProbe.pc = "lookup" => res.lookups[1].commit_sha = WithoutProbe.sha
    /\ WithoutProbe.pc = "returned" =>
         /\ res.pc = "returned"
         /\ SameNumber(res.result.prNumber, WithoutProbe.prNumber)
    /\ Truthy(PullRequestNumber(res.context.payload)) =>
         extractPRNumber(res.context.payload, "workflow_call")
           = Value(res.context.payload.pull_request.number)

\* C27 witness: a workflow_call run whose live payload has a pull_request
\* with a number returned that number without a lookup.
C27_Witness ==
  /\ ProbeCase
  /\ res.pc = "returned"
  /\ res.context.payload.pull_request.present
  /\ res.result.prNumber = 2
  /\ res.lookups = << >>

\* C27 witness: a workflow_call run whose live payload has a pull_request
\* without a number went on to the commit lookup, as without the probe.
C27_WitnessNoNumber ==
  /\ ProbeCase
  /\ res.context.payload.pull_request.present
  /\ Absent(res.context.payload.pull_request.number)
  /\ Len(res.lookups) = 1

====
